---- MODULE Spec2Model ----
(***************************************************************************)
(* Model of the Scaffold command queue of util.scaffold (src/index.ts,     *)
(* the Semaphore-based revision, lines 342-684): builder calls fill a      *)
(* queue of rendered shell commands, go drains it on the local backend     *)
(* (runLocal) or over one ssh connection (runRemote), and a counting       *)
(* semaphore tells runRemote when to report completion.                    *)
(***************************************************************************)
EXTENDS Integers, Sequences, FiniteSets, TLC

(* ------------------------------ bounds --------------------------------- *)

\* the largest number of commands the builder phase queues
MaxQueue == 3

\* what Array.prototype.shift() returns on an empty array
Undefined == "undefined"

\* raw commands handed to run/sudo; "" and Undefined are the no-op inputs
Cmds == {"ls -a", "pwd"}
RawCmds == Cmds \cup {"", Undefined}
Cwds == {"", "/tmp"}

\* put(): what uuid.v4() returns, the local file's contents, the remote path
Uuids == {"u1", "u2"}
Contents == {"hello"}
RFiles == {"/tmp/file2.txt"}

\* mkdir(): the directory
Dirs == {"/var/log/myapp"}

\* put()/mkdir(): the defaults of mode, owner and group, and the options a
\* caller passes
DefaultFileOpts == [mode |-> "755", owner |-> "root", group |-> "root"]
FileOpts == {DefaultFileOpts, [mode |-> "700", owner |-> "root", group |-> "docker"]}

\* copy(): source and destination, the defaults of recursive and sudo, and
\* the options a caller passes
Srcs == {"/tmp/a"}
Dsts == {"/tmp/b"}
DefaultCopyOpts == [recursive |-> FALSE, sudo |-> FALSE]
CopyOpts == {DefaultCopyOpts, [recursive |-> TRUE, sudo |-> TRUE]}

\* the configurations given to the constructor: no address at all, a
\* hostname alone, a host; Undefined stands for a key that is not given
Configs == {[host |-> Undefined, hostname |-> Undefined],
            [host |-> Undefined, hostname |-> "example.com"],
            [host |-> "127.0.0.1", hostname |-> Undefined]}

\* what a channel's close event carries: "" is the falsy (normal) value
NoClErr == ""
ClErrs == {NoClErr, "exit 1"}
Signals == {"SIGHUP"}

(* ------------------------------- state --------------------------------- *)

VARIABLES
    local,      \* Scaffold._local
    stub,       \* Scaffold._config.stub
    cmds,       \* Scaffold._cmds, the command queue
    history,    \* Scaffold._history
    counter,    \* the outstanding count of Scaffold._semaphore
    underflow,  \* decrement was called while the count was zero
    submitted,  \* the rendered commands the builder calls have enqueued
    pc,         \* position of the caller: "build", "runLocal", "returned"
    conn,       \* ssh Client: "none", "connecting", "ready", "failed", "ended"
    execLog,    \* one record per command handed to callSync / Client.exec
    gate,       \* promise of semaphore.wait(): "idle", "waiting", "resolved", "rejected"
    cbLog,      \* the invocations of the go callback, in order
    crashed,    \* the process died of an unhandled 'error' event
    diag,       \* the set of diagnostics copy() has printed with console.log
    config,     \* Scaffold._config: the host and hostname given to the constructor
    late        \* how many of the submitted commands were enqueued after go

vars == <<local, stub, cmds, history, counter, underflow, submitted, pc,
          conn, execLog, gate, cbLog, crashed, diag, config, late>>

(* ------------------------ the wait gate (util.wait) --------------------- *)

increment(c) == c + 1

decrement(c) == IF c > 0 THEN c - 1 ELSE 0

TimeoutError == "Semaphore timeout"

(* ---------------------------- the renderer ----------------------------- *)

\* a renderer whose privilege prefix does not keep the environment
RenderNoEnv(cmd, cwd, sudoOpt) ==
    LET c1 == IF cwd # ""
              THEN "cd " \o cwd \o " && " \o (IF sudoOpt THEN "sudo " ELSE "") \o cmd
              ELSE cmd
    IN  IF sudoOpt THEN "sudo " \o c1 ELSE c1

\* a renderer that only wraps the cwd-prefixed command
RenderOuterOnly(cmd, cwd, sudoOpt) ==
    LET c1 == IF cwd # "" THEN "cd " \o cwd \o " && " \o cmd ELSE cmd
    IN  IF sudoOpt THEN "sudo -E " \o c1 ELSE c1

\* run(): the literal string queued for a non-empty command
Render(cmd, cwd, sudoOpt) ==
    LET c1 == IF cwd # ""
              THEN "cd " \o cwd \o " && " \o (IF sudoOpt THEN "sudo " ELSE "") \o cmd
              ELSE cmd
    IN  IF sudoOpt THEN "sudo -E " \o c1 ELSE c1

IsNoCommand(cmd) == cmd = "" \/ cmd = Undefined

(* ------------------------------ callbacks ------------------------------ *)

NullErr == "null"

\* what a callback sees of the instance it is handed
Self(h, q, c) == [history |-> h, cmds |-> q, counter |-> c]

\* a callback that is handed a fresh instance
cbFresh(log, err, self) == Append(log, [err |-> err, self |-> Self(<<>>, <<>>, 0)])

\* cb(err, self): self is recorded as the instance's state at the invocation
cb(log, err, self) == Append(log, [err |-> err, self |-> self])

ExecError(cmd) == "Command failed: " \o cmd

CloseError(clerr, signal) == "command failed: " \o clerr \o ", signal: " \o signal

OpenError == "Unable to exec"

(* -------------------------------- Init --------------------------------- *)

\* a constructor that takes a hostname for a remote address as well
constructorAnyAddress(opts) ==
    /\ config = opts
    /\ local = IF opts.host # Undefined \/ opts.hostname # Undefined
               THEN FALSE ELSE TRUE

\* _local keeps its initial value false unless opts.host is null or undefined
constructor(opts) ==
    /\ config = opts
    /\ local = IF opts.host # Undefined THEN FALSE ELSE TRUE

Init ==
    /\ \E opts \in Configs : constructor(opts)
    /\ stub \in BOOLEAN
    /\ cmds = <<>>
    /\ history = <<>>
    /\ counter = 0
    /\ underflow = FALSE
    /\ submitted = <<>>
    /\ pc = "build"
    /\ conn = "none"
    /\ execLog = <<>>
    /\ gate = "idle"
    /\ cbLog = <<>>
    /\ crashed = FALSE
    /\ diag = {}
    /\ late = 0

(* --------------------------- builder calls ----------------------------- *)

\* a run that records the command in the history as it enqueues it
runRecords(cmd, cwd, sudoOpt) ==
    /\ pc = "build"
    /\ ~crashed
    /\ IF IsNoCommand(cmd)
       THEN UNCHANGED <<cmds, counter, submitted, history>>
       ELSE /\ Len(cmds) < MaxQueue
            /\ counter' = increment(counter)
            /\ cmds' = Append(cmds, Render(cmd, cwd, sudoOpt))
            /\ submitted' = Append(submitted, Render(cmd, cwd, sudoOpt))
            /\ history' = Append(history, Render(cmd, cwd, sudoOpt))
    /\ UNCHANGED <<late, config, diag, local, stub, underflow, pc, conn, execLog, gate,
                   cbLog, crashed>>

\* the body of run(cmd, opts) with opts = {cwd, sudo}
run(cmd, cwd, sudoOpt) ==
    /\ pc = "build"
    /\ ~crashed
    /\ IF IsNoCommand(cmd)
       THEN UNCHANGED <<cmds, counter, submitted>>
       ELSE /\ Len(cmds) < MaxQueue
            /\ counter' = increment(counter)
            /\ cmds' = Append(cmds, Render(cmd, cwd, sudoOpt))
            /\ submitted' = Append(submitted, Render(cmd, cwd, sudoOpt))
    /\ UNCHANGED <<late, config, diag, local, stub, history, underflow, pc, conn, execLog, gate,
                   cbLog, crashed>>

\* a sudo that passes the caller's options on as they are
sudoKeepsOpts(cmd, cwd, sudoOpt) == run(cmd, cwd, sudoOpt)

\* sudo(cmd, opts): opts.sudo is forced to true whatever the caller passed
sudo(cmd, cwd, sudoOpt) == run(cmd, cwd, TRUE)

Run == \E cmd \in RawCmds, cwd \in Cwds, s \in BOOLEAN : run(cmd, cwd, s)

Sudo == \E cmd \in RawCmds, cwd \in Cwds, s \in BOOLEAN : sudo(cmd, cwd, s)

\* run(cmd, opts) as the builders put, mkdir and copy call it, on the queue
\* and count b = [cmds, counter] left by the calls before it
runOn(b, cmd, cwd, sudoOpt) ==
    IF IsNoCommand(cmd)
    THEN b
    ELSE [cmds |-> Append(b.cmds, Render(cmd, cwd, sudoOpt)),
          counter |-> increment(b.counter)]

\* sudo(cmd) as put and mkdir call it
sudoOn(b, cmd) == runOn(b, cmd, "", TRUE)

\* a chain of builder calls has taken the queue and count to b
Built(b) ==
    /\ pc = "build"
    /\ ~crashed
    /\ Len(b.cmds) <= MaxQueue
    /\ cmds' = b.cmds
    /\ counter' = b.counter
    /\ submitted' = submitted \o SubSeq(b.cmds, Len(cmds) + 1, Len(b.cmds))
    /\ UNCHANGED <<late, config, local, stub, history, underflow, pc, conn, execLog, gate,
                   cbLog, crashed>>

\* a put that leaves the mode of the file alone
putNoChmod(id, content, rfile, opts) ==
    LET cmd == "tee " \o rfile \o " <<-'" \o id \o "'\n" \o content \o "\n" \o id
        b1 == sudoOn([cmds |-> cmds, counter |-> counter], cmd)
        b2 == sudoOn(b1, "chown -R " \o opts.owner \o "." \o opts.group \o " " \o rfile)
    IN  /\ Built(b2)
        /\ diag' = diag

\* put(lfile, rfile, opts): id is the uuid drawn, content what readFileSync
\* returns for lfile
put(id, content, rfile, opts) ==
    LET cmd == "tee " \o rfile \o " <<-'" \o id \o "'\n" \o content \o "\n" \o id
        b1 == sudoOn([cmds |-> cmds, counter |-> counter], cmd)
        b2 == sudoOn(b1, "chown -R " \o opts.owner \o "." \o opts.group \o " " \o rfile)
        b3 == sudoOn(b2, "chmod -R " \o opts.mode \o " " \o rfile)
    IN  /\ Built(b3)
        /\ diag' = diag

Put == \E id \in Uuids, content \in Contents, rfile \in RFiles, opts \in FileOpts :
           put(id, content, rfile, opts)

\* a mkdir that ignores the options it is given
mkdirDefaults(directory, opts) ==
    LET b1 == sudoOn([cmds |-> cmds, counter |-> counter],
                     "[ ! -d " \o directory \o " ] && sudo mkdir -p " \o directory
                         \o " || echo \"directory already exists\"")
        b2 == sudoOn(b1, "chown -R root.root " \o directory)
        b3 == sudoOn(b2, "chmod -R 755 " \o directory)
    IN  /\ Built(b3)
        /\ diag' = diag

\* mkdir(directory, opts)
mkdir(directory, opts) ==
    LET b1 == sudoOn([cmds |-> cmds, counter |-> counter],
                     "[ ! -d " \o directory \o " ] && sudo mkdir -p " \o directory
                         \o " || echo \"directory already exists\"")
        b2 == sudoOn(b1, "chown -R " \o opts.owner \o "." \o opts.group \o " " \o directory)
        b3 == sudoOn(b2, "chmod -R " \o opts.mode \o " " \o directory)
    IN  /\ Built(b3)
        /\ diag' = diag

Mkdir == \E directory \in Dirs, opts \in FileOpts : mkdir(directory, opts)

\* the diagnostic of copy() for a source that does not exist
NoCopy(src) == "No copy.  " \o src \o " does not exist"

\* a copy that prints the diagnostic and enqueues the command all the same
copyAnyway(src, dst, opts, exists) ==
    /\ Built(runOn([cmds |-> cmds, counter |-> counter],
                   "cp " \o (IF opts.recursive THEN "-r" ELSE "") \o " " \o src \o " " \o dst,
                   "", opts.sudo))
    /\ diag' = (IF exists THEN diag ELSE diag \cup {NoCopy(src)})

\* copy(src, dst, opts): exists is what fs.existsSync(src) returns
copy(src, dst, opts, exists) ==
    IF exists
    THEN /\ Built(runOn([cmds |-> cmds, counter |-> counter],
                        "cp " \o (IF opts.recursive THEN "-r" ELSE "") \o " "
                            \o src \o " " \o dst,
                        "", opts.sudo))
         /\ diag' = diag
    ELSE /\ pc = "build"
         /\ ~crashed
         /\ diag' = diag \cup {NoCopy(src)}
         /\ UNCHANGED <<late, config, local, stub, cmds, history, counter, underflow, submitted,
                        pc, conn, execLog, gate, cbLog, crashed>>

Copy == \E src \in Srcs, dst \in Dsts, opts \in CopyOpts, exists \in BOOLEAN :
            copy(src, dst, opts, exists)

(* ------------------------------ helpers -------------------------------- *)

\* Array.prototype.shift(): the head, or undefined when the array is empty
Shift(q) == IF q = <<>> THEN Undefined ELSE Head(q)

Rest(q) == IF q = <<>> THEN <<>> ELSE Tail(q)

\* one entry of execLog: a command handed to callSync or to Client.exec.
\* st: "ok"/"fail" (local); "opening", "open", "closed", "openErr",
\* "closeErr" (remote channel)
Handed(cmd, st) == [cmd |-> cmd, st |-> st, clerr |-> NoClErr, signal |-> ""]

\* the channels that have been requested and have not ended
InFlight == {i \in 1..Len(execLog) : execLog[i].st \in {"opening", "open"}}

(* ----------------------------- local backend --------------------------- *)

\* a loop body that hands the command to callSync whatever the stub flag says
runLocalAlways(ok) ==
    /\ pc = "runLocal"
    /\ ~crashed
    /\ Len(cmds) > 0
    /\ LET cmd == Head(cmds)
           self == Self(Append(history, cmd), Tail(cmds), decrement(counter))
           cb1 == IF ~ok THEN cb(cbLog, ExecError(cmd), self) ELSE cbLog
       IN  /\ cmds' = Tail(cmds)
           /\ counter' = decrement(counter)
           /\ underflow' = (underflow \/ counter = 0)
           /\ history' = Append(history, cmd)
           /\ execLog' = Append(execLog, Handed(cmd, IF ok THEN "ok" ELSE "fail"))
           /\ IF Len(Tail(cmds)) > 0
              THEN /\ cbLog' = cb1
                   /\ pc' = pc
              ELSE /\ cbLog' = cb(cb1, NullErr, self)
                   /\ pc' = "returned"
    /\ UNCHANGED <<late, config, diag, local, stub, submitted, conn, gate, crashed>>

\* one iteration of the while loop of runLocal; ok is what callSync reports.
\* The callback given to callSync returns cb(err, self) to callSync only, so
\* the loop goes on; the iteration that empties the queue falls through to
\* the trailing return cb(null, self).
runLocal(ok) ==
    /\ pc = "runLocal"
    /\ ~crashed
    /\ Len(cmds) > 0
    /\ (stub => ok)
    /\ LET cmd == Head(cmds)
           self == Self(Append(history, cmd), Tail(cmds), decrement(counter))
           cb1 == IF ~stub /\ ~ok THEN cb(cbLog, ExecError(cmd), self) ELSE cbLog
       IN  /\ cmds' = Tail(cmds)
           /\ counter' = decrement(counter)
           /\ underflow' = (underflow \/ counter = 0)
           /\ history' = Append(history, cmd)
           /\ execLog' = IF stub THEN execLog
                         ELSE Append(execLog, Handed(cmd, IF ok THEN "ok" ELSE "fail"))
           /\ IF Len(Tail(cmds)) > 0
              THEN /\ cbLog' = cb1
                   /\ pc' = pc
              ELSE /\ cbLog' = cb(cb1, NullErr, self)
                   /\ pc' = "returned"
    /\ UNCHANGED <<late, config, diag, local, stub, submitted, conn, gate, crashed>>

RunLocal == \E ok \in BOOLEAN : runLocal(ok)

(* ----------------------------- remote backend -------------------------- *)

\* exec(ssh, cmd) in stub mode: the recursion that drains the queue
RECURSIVE execStub(_, _, _, _, _)
execStub(h, q, c, u, cmd) ==
    LET h1 == Append(h, cmd)
        c1 == decrement(c)
        u1 == (u \/ c = 0)
    IN  IF Len(q) > 0
        THEN execStub(h1, Tail(q), c1, u1, Head(q))
        ELSE [history |-> h1, cmds |-> q, counter |-> c1, underflow |-> u1]

\* an exec that hands the command to Client.exec and records nothing
execNoHistory(cmd, q) ==
    /\ history' = history
    /\ execLog' = Append(execLog, Handed(cmd, "opening"))
    /\ cmds' = q

\* exec(ssh, cmd) in live mode, q being the queue left by the caller's shift:
\* the history entry, then Client.exec
exec(cmd, q) ==
    /\ history' = Append(history, cmd)
    /\ execLog' = Append(execLog, Handed(cmd, "opening"))
    /\ cmds' = q

\* a runRemote that hands the first command over without waiting for ready
runRemoteEager ==
    /\ IF stub
       THEN LET r == execStub(history, Rest(cmds), counter, underflow, Shift(cmds))
            IN  /\ history' = r.history
                /\ cmds' = r.cmds
                /\ counter' = r.counter
                /\ underflow' = r.underflow
                /\ conn' = conn
                /\ execLog' = execLog
       ELSE /\ conn' = "connecting"
            /\ exec(Shift(cmds), Rest(cmds))
            /\ UNCHANGED <<counter, underflow>>
    /\ gate' = "waiting"
    /\ pc' = "returned"
    /\ UNCHANGED <<late, config, diag, local, stub, submitted, cbLog, crashed>>

\* a runRemote whose stub drain reports completion before it returns
runRemoteStubCallsBack ==
    /\ IF stub
       THEN LET r == execStub(history, Rest(cmds), counter, underflow, Shift(cmds))
            IN  /\ history' = r.history
                /\ cmds' = r.cmds
                /\ counter' = r.counter
                /\ underflow' = r.underflow
                /\ conn' = conn
                /\ gate' = "resolved"
                /\ cbLog' = cb(cbLog, NullErr, Self(r.history, r.cmds, r.counter))
       ELSE /\ conn' = "connecting"
            /\ gate' = "waiting"
            /\ UNCHANGED <<history, cmds, counter, underflow, cbLog>>
    /\ pc' = "returned"
    /\ UNCHANGED <<late, config, diag, local, stub, submitted, execLog, crashed>>

\* runRemote up to its return: the client is created and connect() called
\* (live) or the queue is drained by exec (stub), then semaphore.wait()
runRemote ==
    /\ IF stub
       THEN LET r == execStub(history, Rest(cmds), counter, underflow, Shift(cmds))
            IN  /\ history' = r.history
                /\ cmds' = r.cmds
                /\ counter' = r.counter
                /\ underflow' = r.underflow
                /\ conn' = conn
       ELSE /\ conn' = "connecting"
            /\ UNCHANGED <<history, cmds, counter, underflow>>
    /\ gate' = "waiting"
    /\ pc' = "returned"
    /\ UNCHANGED <<late, config, diag, local, stub, submitted, execLog, cbLog, crashed>>

\* a go that returns from an empty local queue without calling back
goSilent ==
    /\ pc = "build"
    /\ ~crashed
    /\ IF local
       THEN IF Len(cmds) > 0
            THEN /\ pc' = "runLocal"
                 /\ UNCHANGED <<late, config, diag, local, stub, cmds, history, counter, underflow,
                                submitted, conn, execLog, gate, cbLog, crashed>>
            ELSE /\ pc' = "returned"
                 /\ UNCHANGED <<late, config, diag, local, stub, cmds, history, counter, underflow,
                                submitted, conn, execLog, gate, cbLog, crashed>>
       ELSE runRemote

\* go(opts, cb)
go ==
    /\ pc = "build"
    /\ ~crashed
    /\ IF local
       THEN IF Len(cmds) > 0
            THEN /\ pc' = "runLocal"
                 /\ UNCHANGED <<late, config, diag, local, stub, cmds, history, counter, underflow,
                                submitted, conn, execLog, gate, cbLog, crashed>>
            ELSE /\ pc' = "returned"
                 /\ cbLog' = cb(cbLog, NullErr, Self(history, cmds, counter))
                 /\ UNCHANGED <<late, config, diag, local, stub, cmds, history, counter, underflow,
                                submitted, conn, execLog, gate, crashed>>
       ELSE runRemote

\* a ready handler that hands every queued command to Client.exec at once
onReadyAll ==
    /\ conn = "connecting"
    /\ ~crashed
    /\ conn' = "ready"
    /\ LET q == IF cmds = <<>> THEN <<Undefined>> ELSE cmds
       IN  /\ history' = history \o q
           /\ execLog' = execLog \o [k \in 1..Len(q) |-> Handed(q[k], "opening")]
           /\ cmds' = <<>>
    /\ UNCHANGED <<late, config, diag, local, stub, counter, underflow, submitted, pc, gate, cbLog,
                   crashed>>

\* conn.on('ready', ...)
onReady ==
    /\ conn = "connecting"
    /\ ~crashed
    /\ conn' = "ready"
    /\ exec(Shift(cmds), Rest(cmds))
    /\ UNCHANGED <<late, config, diag, local, stub, counter, underflow, submitted, pc, gate, cbLog,
                   crashed>>

\* the client emits 'error' while connecting; runRemote registers no
\* listener for it, so the emitter throws: the process dies unless the host
\* program catches uncaught exceptions
onConnectError ==
    /\ conn = "connecting"
    /\ ~crashed
    /\ conn' = "failed"
    /\ crashed' \in BOOLEAN
    /\ UNCHANGED <<late, config, diag, local, stub, cmds, history, counter, underflow, submitted,
                   pc, execLog, gate, cbLog>>

\* an exec callback that reports the error and goes on with the queue
onExecContinue(i, err) ==
    /\ conn = "ready"
    /\ ~crashed
    /\ i \in 1..Len(execLog)
    /\ execLog[i].st = "opening"
    /\ IF err
       THEN /\ cbLog' = cb(cbLog, OpenError, Self(history, cmds, counter))
            /\ IF Len(cmds) > 0
               THEN /\ history' = Append(history, Head(cmds))
                    /\ execLog' = Append([execLog EXCEPT ![i].st = "openErr"],
                                         Handed(Head(cmds), "opening"))
                    /\ cmds' = Tail(cmds)
               ELSE /\ execLog' = [execLog EXCEPT ![i].st = "openErr"]
                    /\ UNCHANGED <<cmds, history>>
       ELSE /\ execLog' = [execLog EXCEPT ![i].st = "open"]
            /\ UNCHANGED <<cbLog, cmds, history>>
    /\ UNCHANGED <<late, config, diag, local, stub, counter, underflow, submitted, pc, conn, gate,
                   crashed>>

\* the callback given to ssh.exec, for the i-th command handed over
onExec(i, err) ==
    /\ conn = "ready"
    /\ ~crashed
    /\ i \in 1..Len(execLog)
    /\ execLog[i].st = "opening"
    /\ IF err
       THEN /\ execLog' = [execLog EXCEPT ![i].st = "openErr"]
            /\ cbLog' = cb(cbLog, OpenError, Self(history, cmds, counter))
       ELSE /\ execLog' = [execLog EXCEPT ![i].st = "open"]
            /\ cbLog' = cbLog
    /\ UNCHANGED <<late, config, diag, local, stub, cmds, history, counter, underflow, submitted,
                   pc, conn, gate, crashed>>

OnExec == \E i \in 1..Len(execLog), err \in BOOLEAN : onExec(i, err)

\* a close handler that decrements before it looks at clerr
onCloseDecrementFirst(i, clerr, signal) ==
    /\ conn = "ready"
    /\ ~crashed
    /\ i \in 1..Len(execLog)
    /\ execLog[i].st = "open"
    /\ counter' = decrement(counter)
    /\ underflow' = (underflow \/ counter = 0)
    /\ IF clerr # NoClErr
       THEN /\ execLog' = [execLog EXCEPT ![i].st = "closeErr",
                                          ![i].clerr = clerr,
                                          ![i].signal = signal]
            /\ cbLog' = cb(cbLog, CloseError(clerr, signal),
                           Self(history, cmds, decrement(counter)))
            /\ UNCHANGED <<cmds, history>>
       ELSE /\ cbLog' = cbLog
            /\ IF Len(cmds) > 0
               THEN /\ history' = Append(history, Head(cmds))
                    /\ execLog' = Append([execLog EXCEPT ![i].st = "closed"],
                                         Handed(Head(cmds), "opening"))
                    /\ cmds' = Tail(cmds)
               ELSE /\ execLog' = [execLog EXCEPT ![i].st = "closed"]
                    /\ UNCHANGED <<cmds, history>>
    /\ UNCHANGED <<late, config, diag, local, stub, submitted, pc, conn, gate, crashed>>

\* a close handler that forgets self._semaphore.decrement()
onCloseNoDecrement(i, clerr, signal) ==
    /\ conn = "ready"
    /\ ~crashed
    /\ i \in 1..Len(execLog)
    /\ execLog[i].st = "open"
    /\ IF clerr # NoClErr
       THEN /\ execLog' = [execLog EXCEPT ![i].st = "closeErr",
                                          ![i].clerr = clerr,
                                          ![i].signal = signal]
            /\ cbLog' = cb(cbLog, CloseError(clerr, signal),
                           Self(history, cmds, counter))
            /\ UNCHANGED <<cmds, history>>
       ELSE /\ cbLog' = cbLog
            /\ IF Len(cmds) > 0
               THEN /\ history' = Append(history, Head(cmds))
                    /\ execLog' = Append([execLog EXCEPT ![i].st = "closed"],
                                         Handed(Head(cmds), "opening"))
                    /\ cmds' = Tail(cmds)
               ELSE /\ execLog' = [execLog EXCEPT ![i].st = "closed"]
                    /\ UNCHANGED <<cmds, history>>
    /\ UNCHANGED <<late, config, diag, local, stub, counter, underflow, submitted, pc, conn, gate,
                   crashed>>

\* a close handler that empties the queue when the command failed
onCloseDropsRest(i, clerr, signal) ==
    /\ conn = "ready"
    /\ ~crashed
    /\ i \in 1..Len(execLog)
    /\ execLog[i].st = "open"
    /\ IF clerr # NoClErr
       THEN /\ execLog' = [execLog EXCEPT ![i].st = "closeErr",
                                          ![i].clerr = clerr,
                                          ![i].signal = signal]
            /\ cmds' = <<>>
            /\ cbLog' = cb(cbLog, CloseError(clerr, signal), Self(history, <<>>, counter))
            /\ UNCHANGED <<history, counter, underflow>>
       ELSE /\ counter' = decrement(counter)
            /\ underflow' = (underflow \/ counter = 0)
            /\ cbLog' = cbLog
            /\ IF Len(cmds) > 0
               THEN /\ history' = Append(history, Head(cmds))
                    /\ execLog' = Append([execLog EXCEPT ![i].st = "closed"],
                                         Handed(Head(cmds), "opening"))
                    /\ cmds' = Tail(cmds)
               ELSE /\ execLog' = [execLog EXCEPT ![i].st = "closed"]
                    /\ UNCHANGED <<cmds, history>>
    /\ UNCHANGED <<late, config, diag, local, stub, submitted, pc, conn, gate, crashed>>

\* stream.on('close', (clerr, signal) => ...) of the i-th channel
onClose(i, clerr, signal) ==
    /\ conn = "ready"
    /\ ~crashed
    /\ i \in 1..Len(execLog)
    /\ execLog[i].st = "open"
    /\ IF clerr # NoClErr
       THEN /\ execLog' = [execLog EXCEPT ![i].st = "closeErr",
                                          ![i].clerr = clerr,
                                          ![i].signal = signal]
            /\ cbLog' = cb(cbLog, CloseError(clerr, signal), Self(history, cmds, counter))
            /\ UNCHANGED <<cmds, history, counter, underflow>>
       ELSE /\ counter' = decrement(counter)
            /\ underflow' = (underflow \/ counter = 0)
            /\ cbLog' = cbLog
            /\ IF Len(cmds) > 0
               THEN /\ history' = Append(history, Head(cmds))
                    /\ execLog' = Append([execLog EXCEPT ![i].st = "closed"],
                                         Handed(Head(cmds), "opening"))
                    /\ cmds' = Tail(cmds)
               ELSE /\ execLog' = [execLog EXCEPT ![i].st = "closed"]
                    /\ UNCHANGED <<cmds, history>>
    /\ UNCHANGED <<late, config, diag, local, stub, submitted, pc, conn, gate, crashed>>

OnClose == \E i \in 1..Len(execLog), clerr \in ClErrs, signal \in Signals :
               onClose(i, clerr, signal)

\* semaphore.wait().then(...): the count is zero
waitThen ==
    /\ gate = "waiting"
    /\ ~crashed
    /\ counter = 0
    /\ gate' = "resolved"
    /\ conn' = IF ~stub THEN "ended" ELSE conn
    /\ cbLog' = cb(cbLog, NullErr, Self(history, cmds, counter))
    /\ UNCHANGED <<late, config, diag, local, stub, cmds, history, counter, underflow, submitted,
                   pc, execLog, crashed>>

\* a catch handler that only logs the timeout
waitCatchSilent ==
    /\ gate = "waiting"
    /\ ~crashed
    /\ counter > 0
    /\ gate' = "rejected"
    /\ UNCHANGED <<late, config, diag, local, stub, cmds, history, counter, underflow, submitted,
                   pc, conn, execLog, cbLog, crashed>>

\* semaphore.wait().catch(...): the timeout elapsed with the count above zero
waitCatch ==
    /\ gate = "waiting"
    /\ ~crashed
    /\ counter > 0
    /\ gate' = "rejected"
    /\ cbLog' = cb(cbLog, TimeoutError, Self(history, cmds, counter))
    /\ UNCHANGED <<late, config, diag, local, stub, cmds, history, counter, underflow, submitted,
                   pc, conn, execLog, crashed>>

(* ---------------------------- specification ---------------------------- *)

Next ==
    \/ Run
    \/ Sudo
    \/ Put
    \/ Mkdir
    \/ Copy
    \/ go
    \/ RunLocal
    \/ onReady
    \/ onConnectError
    \/ OnExec
    \/ OnClose
    \/ waitThen
    \/ waitCatch

Spec == Init /\ [][Next]_vars

\* the transport delivers its events and the wait gate polls its count; the
\* timeout is never forced
LiveSpec ==
    /\ Init
    /\ [][Next]_vars
    /\ WF_vars(onReady)
    /\ WF_vars(OnExec)
    /\ WF_vars(OnClose)
    /\ WF_vars(waitThen)

\* run(cmd, opts) called by the host program after go has returned, while
\* the channel of a command is open
runLateUncounted(cmd, cwd, sudoOpt) ==
    /\ pc = "returned"
    /\ ~local /\ ~stub
    /\ ~crashed
    /\ {i \in 1..Len(execLog) : execLog[i].st = "open"} # {}
    /\ ~IsNoCommand(cmd)
    /\ Len(submitted) < MaxQueue
    /\ cmds' = Append(cmds, Render(cmd, cwd, sudoOpt))
    /\ counter' = counter
    /\ submitted' = Append(submitted, Render(cmd, cwd, sudoOpt))
    /\ late' = late + 1
    /\ UNCHANGED <<config, diag, local, stub, history, underflow, pc, conn, execLog,
                   gate, cbLog, crashed>>

runLate(cmd, cwd, sudoOpt) ==
    /\ pc = "returned"
    /\ ~local /\ ~stub
    /\ ~crashed
    /\ {i \in 1..Len(execLog) : execLog[i].st = "open"} # {}
    /\ ~IsNoCommand(cmd)
    /\ Len(submitted) < MaxQueue
    /\ LET b == runOn([cmds |-> cmds, counter |-> counter], cmd, cwd, sudoOpt)
       IN  /\ cmds' = b.cmds
           /\ counter' = b.counter
    /\ submitted' = Append(submitted, Render(cmd, cwd, sudoOpt))
    /\ late' = late + 1
    /\ UNCHANGED <<config, diag, local, stub, history, underflow, pc, conn, execLog,
                   gate, cbLog, crashed>>

\* the late calls take their options from LateOpts
LateOpts == {[cwd |-> "", sudo |-> FALSE], [cwd |-> "/tmp", sudo |-> TRUE]}

RunLate == \E cmd \in {"pwd"}, o \in LateOpts : runLate(cmd, o.cwd, o.sudo)

\* the host program may also enqueue while the remote drain is under way
LateSpec ==
    /\ Init
    /\ [][Next \/ RunLate]_vars

\* time passes: the timeout of the wait gate elapses while the count stays
\* above zero; the transport is not obliged to deliver anything
TimeoutSpec ==
    /\ Init
    /\ [][Next]_vars
    /\ WF_vars(waitCatch)

(* ------------ the earlier revision (src/index.ts, lines 1-340) --------- *)

\* The earlier revision has no semaphore and no ssh client: counter, conn and
\* gate keep their initial values. pc is also "thrown" there: an exception
\* has left go.

\* the instance after the constructor of the earlier revision
InitEarlier == Init

\* go calls cb() without arguments
cbEarlier(log) == Append(log, [err |-> Undefined, self |-> Undefined])

\* run(cmd, opts) on the queue q left by the calls before it
runOnEarlier(q, cmd, cwd, sudoOpt) ==
    IF IsNoCommand(cmd) THEN q ELSE Append(q, Render(cmd, cwd, sudoOpt))

\* sudo(cmd) as put and mkdir call it
sudoOnEarlier(q, cmd) == runOnEarlier(q, cmd, "", TRUE)

\* a chain of builder calls has taken the queue to q
BuiltEarlier(q) ==
    /\ pc = "build"
    /\ Len(q) <= MaxQueue
    /\ cmds' = q
    /\ submitted' = submitted \o SubSeq(q, Len(cmds) + 1, Len(q))
    /\ UNCHANGED <<late, config, local, stub, history, counter, underflow, pc, conn,
                   execLog, gate, cbLog, crashed>>

runEarlier(cmd, cwd, sudoOpt) ==
    /\ BuiltEarlier(runOnEarlier(cmds, cmd, cwd, sudoOpt))
    /\ diag' = diag

sudoEarlier(cmd, cwd, sudoOpt) == runEarlier(cmd, cwd, TRUE)

RunEarlier == \E cmd \in RawCmds, cwd \in Cwds, s \in BOOLEAN : runEarlier(cmd, cwd, s)

SudoEarlier == \E cmd \in RawCmds, cwd \in Cwds, s \in BOOLEAN : sudoEarlier(cmd, cwd, s)

\* put(lfile, rfile, opts): the command already starts with sudo -E, and the
\* closing delimiter is the text ${id}, the quotes being single
putEarlier(id, content, rfile, opts) ==
    LET cmd == "sudo -E tee " \o rfile \o " <<-'" \o id \o "'\n" \o content \o "\n${id}"
        q1 == sudoOnEarlier(cmds, cmd)
        q2 == sudoOnEarlier(q1, "chown -R " \o opts.owner \o "." \o opts.group \o " " \o rfile)
        q3 == sudoOnEarlier(q2, "chmod -R " \o opts.mode \o " " \o rfile)
    IN  /\ BuiltEarlier(q3)
        /\ diag' = diag

PutEarlier == \E id \in Uuids, content \in Contents, rfile \in RFiles, opts \in FileOpts :
                  putEarlier(id, content, rfile, opts)

mkdirEarlier(directory, opts) ==
    LET q1 == sudoOnEarlier(cmds, "[ ! -d " \o directory \o " ] && sudo mkdir -p " \o directory
                                      \o " || echo \"directory already exists\"")
        q2 == sudoOnEarlier(q1, "chown -R " \o opts.owner \o "." \o opts.group \o " " \o directory)
        q3 == sudoOnEarlier(q2, "chmod -R " \o opts.mode \o " " \o directory)
    IN  /\ BuiltEarlier(q3)
        /\ diag' = diag

MkdirEarlier == \E directory \in Dirs, opts \in FileOpts : mkdirEarlier(directory, opts)

\* copy(src, dst, opts): the diagnostic goes through sanitize to console.log
copyEarlier(src, dst, opts, exists) ==
    IF exists
    THEN /\ BuiltEarlier(runOnEarlier(cmds,
                 "cp " \o (IF opts.recursive THEN "-r" ELSE "") \o " " \o src \o " " \o dst,
                 "", opts.sudo))
         /\ diag' = diag
    ELSE /\ pc = "build"
         /\ diag' = diag \cup {NoCopy(src)}
         /\ UNCHANGED <<late, config, local, stub, cmds, history, counter, underflow,
                        submitted, pc, conn, execLog, gate, cbLog, crashed>>

CopyEarlier == \E src \in Srcs, dst \in Dsts, opts \in CopyOpts, exists \in BOOLEAN :
                   copyEarlier(src, dst, opts, exists)

\* runRemote(opts): its body is commented out, it prints opts and returns
runRemoteEarlier ==
    UNCHANGED <<cmds, history, execLog>>

\* go(opts, cb): runLocal or runRemote, then cb(); with commands in a local
\* queue the loop of runLocal is taken one iteration at a time
goEarlier ==
    /\ pc = "build"
    /\ IF local
       THEN IF Len(cmds) > 0
            THEN /\ pc' = "runLocal"
                 /\ UNCHANGED <<cmds, history, execLog, cbLog>>
            ELSE /\ pc' = "returned"
                 /\ cbLog' = cbEarlier(cbLog)
                 /\ UNCHANGED <<cmds, history, execLog>>
       ELSE /\ runRemoteEarlier
            /\ pc' = "returned"
            /\ cbLog' = cbEarlier(cbLog)
    /\ UNCHANGED <<late, config, diag, local, stub, counter, underflow, submitted, conn,
                   gate, crashed>>

\* one iteration of the while loop of runLocal; ok is whether execSync
\* returns: when it throws, the exception leaves runLocal and go, and cb is
\* not reached; the iteration that empties the queue is followed by cb()
runLocalEarlier(ok) ==
    /\ pc = "runLocal"
    /\ Len(cmds) > 0
    /\ (stub => ok)
    /\ LET cmd == Head(cmds)
       IN  /\ cmds' = Tail(cmds)
           /\ history' = Append(history, cmd)
           /\ execLog' = IF stub THEN execLog
                         ELSE Append(execLog, Handed(cmd, IF ok THEN "ok" ELSE "fail"))
           /\ IF ~stub /\ ~ok
              THEN /\ pc' = "thrown"
                   /\ cbLog' = cbLog
              ELSE IF Len(Tail(cmds)) > 0
                   THEN /\ pc' = pc
                        /\ cbLog' = cbLog
                   ELSE /\ pc' = "returned"
                        /\ cbLog' = cbEarlier(cbLog)
    /\ UNCHANGED <<late, config, diag, local, stub, counter, underflow, submitted, conn,
                   gate, crashed>>

RunLocalEarlier == \E ok \in BOOLEAN : runLocalEarlier(ok)

NextEarlier ==
    \/ RunEarlier
    \/ SudoEarlier
    \/ PutEarlier
    \/ MkdirEarlier
    \/ CopyEarlier
    \/ goEarlier
    \/ RunLocalEarlier

EarlierSpec == InitEarlier /\ [][NextEarlier]_vars

(* ------------------------------ properties ----------------------------- *)

Remote == ~local

Live == ~stub

\* the entries of execLog in state st
HandedIn(st) == {i \in 1..Len(execLog) : execLog[i].st = st}

\* the callback invocations that carried the error err
Calls(err) == {j \in 1..Len(cbLog) : cbLog[j].err = err}

\* no command, connection or wait has failed
NoFailure ==
    /\ \A i \in 1..Len(execLog) : execLog[i].st \notin {"fail", "openErr", "closeErr"}
    /\ conn # "failed"
    /\ gate # "rejected"

\* C1: when no command fails, the history the go callback sees is exactly the
\* rendered commands of the builder calls, in submission order, for every
\* number n >= 0 of calls and on both backends.
C1_HistoryIsSubmitted ==
    NoFailure =>
        \A j \in Calls(NullErr) : cbLog[j].self.history = submitted

\* C2: in local live mode, once callSync has reported a failure no later
\* command is handed to callSync or appended to history, and the queue is
\* not drained any further.
C2_LocalAbortsOnFailure ==
    (local /\ Live) =>
        \A i \in HandedIn("fail") :
            /\ i = Len(execLog)
            /\ Len(history) = i
            /\ cmds = SubSeq(submitted, i + 1, Len(submitted))

\* C3: in local mode the go callback is invoked exactly once: once with the
\* error when a command fails, once with null when all succeed.
C3_LocalCallbackOnce ==
    local =>
        /\ Len(cbLog) <= 1
        /\ pc = "returned" => Len(cbLog) = 1
        /\ \A i \in HandedIn("fail") : Calls(NullErr) = {}

\* C4: in remote live mode Client.exec is called for a command only after the
\* channel of every command handed over before it has closed, so at most one
\* channel is in flight, and the commands are handed over in queue order.
C4_OneChannelAtATime ==
    (Remote /\ Live) =>
        /\ Cardinality(InFlight) <= 1
        /\ \A i \in 1..(Len(execLog) - 1) : execLog[i].st = "closed"
        /\ Len(submitted) >= 1 =>
               \A i \in 1..Len(execLog) : execLog[i].cmd = submitted[i]

C4_Witness ==
    /\ Remote /\ Live
    /\ Len(execLog) = 3
    /\ execLog[3].st = "open"

\* C5: in remote live mode, after a channel has closed with an error
\* indication the go callback has been invoked with an error that embeds the
\* indication, no further command has been handed to Client.exec, and the
\* semaphore has been decremented only for the channels that closed normally.
C5_AbnormalCloseAborts ==
    (Remote /\ Live) =>
        \A i \in HandedIn("closeErr") :
            /\ i = Len(execLog)
            /\ Calls(CloseError(execLog[i].clerr, execLog[i].signal)) # {}
            /\ counter = Len(submitted) - Cardinality(HandedIn("closed"))
            /\ cmds = SubSeq(submitted, i + 1, Len(submitted))

C5_Witness ==
    /\ Remote /\ Live
    /\ HandedIn("closeErr") = {2}
    /\ Len(cmds) = 1
    /\ counter = 2

\* C6: in remote mode the go callback is invoked at most once (stated for a
\* drain of at least one queued command).
C6_RemoteCallbackAtMostOnce ==
    (Remote /\ Len(submitted) >= 1) => Len(cbLog) <= 1

\* C7: in remote live mode, whenever the wait gate has settled (resolved or
\* timed out) the connection has been ended.
C7_ConnectionEndedWhenGateSettles ==
    (Remote /\ Live /\ gate \in {"resolved", "rejected"}) => conn = "ended"

\* C8: in remote live mode with queued commands, when the connection could
\* not be established and the drain is over, the go callback has been invoked
\* with an error for that failure and no command has been dispatched.
C8_ConnectFailureReported ==
    (Remote /\ Live /\ Len(submitted) >= 1 /\ conn = "failed"
        /\ (crashed \/ gate \in {"resolved", "rejected"})) =>
        /\ \E j \in 1..Len(cbLog) : cbLog[j].err \notin {NullErr, TimeoutError}
        /\ execLog = <<>>
        /\ history = <<>>

\* C9: in remote live mode, after Client.exec has reported a channel-open
\* error the go callback has been invoked with that error at once (it saw
\* the instance as it still is), no later command has been dispatched and
\* the remaining commands are still in the queue.
C9_OpenErrorAborts ==
    (Remote /\ Live) =>
        \A i \in HandedIn("openErr") :
            /\ i = Len(execLog)
            /\ \E j \in Calls(OpenError) :
                   cbLog[j].self = Self(history, cmds, counter)
            /\ Len(history) = i
            /\ cmds = SubSeq(submitted, i + 1, Len(submitted))

C9_Witness ==
    /\ Remote /\ Live
    /\ HandedIn("openErr") = {2}
    /\ Len(cmds) = 1

\* C10: in remote mode with at least one queued command, once go has
\* returned, the go callback is eventually invoked with a null error and the
\* instance, unless the connection fails, a channel fails to open or closes
\* abnormally, or the timeout elapses.
C10_RemoteCompletes ==
    (Remote /\ pc = "returned" /\ Len(submitted) >= 1)
        ~> \/ \E j \in Calls(NullErr) : cbLog[j].self = Self(history, cmds, counter)
           \/ ~NoFailure

C10_Witness ==
    /\ Remote /\ Live
    /\ Len(submitted) = 3
    /\ NoFailure
    /\ Len(cbLog) = 1
    /\ cbLog[1] = [err |-> NullErr, self |-> Self(submitted, <<>>, 0)]

\* C11: in remote live mode the only timeout is that of the wait gate: while
\* the count stays above zero (a channel that never closes, a connection that
\* never becomes ready) the drain ends when that timeout elapses, and then
\* the go callback is invoked with the timeout error, once, unless the
\* process has died of the unhandled connect error.
C11_AggregateTimeout ==
    /\ [](Remote /\ Live =>
            /\ Cardinality(Calls(TimeoutError)) = (IF gate = "rejected" THEN 1 ELSE 0)
            /\ \A j \in Calls(TimeoutError) : cbLog[j].self.counter > 0)
    /\ (Remote /\ Live /\ gate = "waiting")
           ~> (counter = 0 \/ crashed \/ Calls(TimeoutError) # {})

C11_Witness ==
    /\ Remote /\ Live
    /\ conn = "connecting"
    /\ Len(submitted) = 2
    /\ cbLog = <<[err |-> TimeoutError, self |-> Self(<<>>, submitted, 2)]>>

\* C12: with stub = true nothing is executed on either backend: no command
\* is handed to callSync or to Client.exec, and no transport client is
\* created or connected.
C12_StubExecutesNothing ==
    stub => /\ execLog = <<>>
            /\ conn = "none"

C12_Witness ==
    /\ stub
    /\ Len(history) >= 2
    /\ history = submitted
    /\ Calls(NullErr) # {}

\* the history a stub drain leaves for the queue q: the loop of runLocal
\* pushes every queued command; runRemote pushes the result of the first
\* shift and then whatever exec finds in the queue
StubDrain(isLocal, q) ==
    IF isLocal THEN q
    ELSE execStub(<<>>, Rest(q), Len(q), FALSE, Shift(q)).history

\* the go call has run to its end: runLocal has returned, or the wait gate
\* of runRemote has resolved
Drained == IF local THEN pc = "returned" ELSE gate = "resolved"

\* C13: for the same builder calls a stub drain and a live drain in which
\* every command succeeds end alike, on both backends: the history is the one
\* the stub drain leaves and the callback was invoked once, with a null error
\* and that history.
C13_StubMatchesLive ==
    (Drained /\ NoFailure) =>
        /\ history = StubDrain(local, submitted)
        /\ cbLog = <<[err |-> NullErr,
                      self |-> Self(StubDrain(local, submitted), <<>>, 0)]>>

\* the same for one builder call or more
C13_WithCommands ==
    Len(submitted) >= 1 => C13_StubMatchesLive

\* C14: run('') and run(undefined) enqueue nothing, so an instance whose
\* only builder calls were of that kind has an empty history after go, on
\* either backend.
C14_EmptyRunNoHistory ==
    (submitted = <<>> /\ diag = {} /\ pc = "returned") => history = <<>>

\* C15: on the local backend go is synchronous: when it has returned the
\* queue is drained or the drain failed, the history holds every command
\* that was dispatched, the callback has been invoked, and nothing is left
\* pending (no connection, no wait gate).
C15_LocalSynchronous ==
    (local /\ pc = "returned") =>
        /\ cmds = <<>> \/ HandedIn("fail") # {}
        /\ Live => history = [i \in 1..Len(execLog) |-> execLog[i].cmd]
        /\ cbLog # <<>>
        /\ cbLog[Len(cbLog)].self.history = history
        /\ gate = "idle"
        /\ conn = "none"

C15_Witness ==
    /\ local /\ Live
    /\ pc = "returned"
    /\ Len(execLog) = 2
    /\ history = submitted
    /\ Len(cbLog) = 1

\* C16: on a local live instance, a copy whose source does not exist,
\* followed by go, makes the go callback receive a non-null error.
C16_MissingSourceReported ==
    (local /\ Live /\ pc = "returned" /\ diag # {} /\ submitted = <<>>) =>
        \E j \in 1..Len(cbLog) : cbLog[j].err # NullErr

\* C17: a copy whose source does not exist enqueues nothing: the queue, the
\* history and the count are as before, the instance is still being built,
\* and the builder calls that follow are enqueued as usual (during the build
\* the queue is exactly the rendered commands, each counted once).
C17_MissingSourceEnqueuesNothing ==
    /\ [][(\/ diag' # diag
           \/ \E src \in Srcs, dst \in Dsts, opts \in CopyOpts :
                  copy(src, dst, opts, FALSE))
          => UNCHANGED <<cmds, history, counter, submitted, pc>>]_vars
    /\ [](pc = "build" => /\ cmds = submitted
                          /\ counter = Len(cmds)
                          /\ history = <<>>)

C17_Witness ==
    /\ pc = "build"
    /\ diag # {}
    /\ Len(cmds) = 2
    /\ cmds = submitted
    /\ counter = 2

\* C18: a copy with default options whose source exists enqueues exactly
\* one command, 'cp <src> <dst>' with single spaces, and counts it once.
C18_CopyCommand ==
    [][\A src \in Srcs, dst \in Dsts :
           copy(src, dst, DefaultCopyOpts, TRUE) =>
               /\ cmds' = Append(cmds, "cp " \o src \o " " \o dst)
               /\ counter' = counter + 1]_vars

\* C19: put enqueues exactly three commands, all privilege-escalated: a tee
\* of the remote file fed by a here-document that holds the contents of the
\* local file between two delimiter markers, then chown -R <owner>.<group>,
\* then chmod -R <mode>, with root, root and 755 when no option is given;
\* the count rises by exactly 3.
C19_PutCommands ==
    [][\A id \in Uuids, content \in Contents, rfile \in RFiles, opts \in FileOpts :
           put(id, content, rfile, opts) =>
               /\ cmds' = cmds \o
                    << "sudo -E tee " \o rfile \o " <<-'" \o id \o "'\n"
                           \o content \o "\n" \o id,
                       "sudo -E chown -R " \o opts.owner \o "." \o opts.group
                           \o " " \o rfile,
                       "sudo -E chmod -R " \o opts.mode \o " " \o rfile >>
               /\ counter' = counter + 3
               /\ UNCHANGED <<history, pc>>]_vars

C19_Witness ==
    /\ pc = "build"
    /\ counter = 3
    /\ cmds = << "sudo -E tee /tmp/file2.txt <<-'u1'\nhello\nu1",
                 "sudo -E chown -R root.root /tmp/file2.txt",
                 "sudo -E chmod -R 755 /tmp/file2.txt" >>

\* C20: mkdir enqueues exactly three commands, all privilege-escalated: the
\* guarded creation of the directory, then chown -R <owner>.<group>, then
\* chmod -R <mode>, with root, root and 755 when no option is given; the
\* count rises by exactly 3.
C20_MkdirCommands ==
    [][\A directory \in Dirs, opts \in FileOpts :
           mkdir(directory, opts) =>
               /\ cmds' = cmds \o
                    << "sudo -E [ ! -d " \o directory \o " ] && sudo mkdir -p "
                           \o directory \o " || echo \"directory already exists\"",
                       "sudo -E chown -R " \o opts.owner \o "." \o opts.group
                           \o " " \o directory,
                       "sudo -E chmod -R " \o opts.mode \o " " \o directory >>
               /\ counter' = counter + 3
               /\ UNCHANGED <<history, pc>>]_vars

C20_Witness ==
    /\ pc = "build"
    /\ counter = 3
    /\ cmds = << "sudo -E [ ! -d /var/log/myapp ] && sudo mkdir -p /var/log/myapp || echo \"directory already exists\"",
                 "sudo -E chown -R root.root /var/log/myapp",
                 "sudo -E chmod -R 755 /var/log/myapp" >>

\* C21: for every non-empty command, run(cmd) enqueues cmd unchanged,
\* run(cmd, {cwd: d}) without sudo enqueues 'cd <d> && <cmd>' and
\* run(cmd, {sudo: true}) without cwd enqueues 'sudo -E <cmd>'; each call
\* appends exactly one entry at the tail of the queue.
C21_RenderedCommand ==
    [][\A cmd \in Cmds :
           /\ run(cmd, "", FALSE) => cmds' = Append(cmds, cmd)
           /\ run(cmd, "", TRUE) => cmds' = Append(cmds, "sudo -E " \o cmd)
           /\ \A d \in Cwds \ {""} :
                  run(cmd, d, FALSE) =>
                      cmds' = Append(cmds, "cd " \o d \o " && " \o cmd)]_vars

C21_Witness ==
    /\ pc = "build"
    /\ cmds = <<"ls -a", "cd /tmp && ls -a", "sudo -E ls -a">>

\* C22 as stated: run(cmd, {cwd: d, sudo: true}) enqueues a string in which
\* the 'cd <d>' clause carries a privilege prefix of its own ('sudo ' or
\* 'sudo -E ') and the cwd-prefixed command so obtained is wrapped by the
\* outer 'sudo -E '.
C22_CdEscalated ==
    [][\A cmd \in Cmds, d \in Cwds \ {""} :
           run(cmd, d, TRUE) =>
               \E inner \in {"sudo ", "sudo -E "} :
                   cmds' = Append(cmds, "sudo -E " \o inner \o "cd " \o d
                                            \o " && " \o cmd)]_vars

\* C22 amended: run(cmd, {cwd: d, sudo: true}) enqueues exactly
\* 'sudo -E cd <d> && sudo <cmd>': the inner 'sudo ' prefix is given to the
\* command that follows the &&, and the outer 'sudo -E ' prefix lands in
\* front of the cd clause.
C22_CommandEscalated ==
    [][\A cmd \in Cmds, d \in Cwds \ {""} :
           run(cmd, d, TRUE) =>
               cmds' = Append(cmds, "sudo -E cd " \o d \o " && sudo " \o cmd)]_vars

C22_Witness ==
    /\ pc = "build"
    /\ cmds = <<"sudo -E cd /tmp && sudo pwd">>
    /\ counter = 1

\* C23: sudo(cmd, opts) is run(cmd, opts with sudo forced to true): for
\* every cmd (the empty ones included) and every opts, with or without a cwd
\* and whatever opts.sudo says, the two calls are the same step, and it
\* leaves the queue and the count as run with sudo = true leaves them.
C23_SudoIsRunWithSudo ==
    [][\A cmd \in RawCmds, cwd \in Cwds, s \in BOOLEAN :
           /\ sudo(cmd, cwd, s) <=> run(cmd, cwd, TRUE)
           /\ sudo(cmd, cwd, s) =>
                  LET b == runOn([cmds |-> cmds, counter |-> counter], cmd, cwd, TRUE)
                  IN  cmds' = b.cmds /\ counter' = b.counter]_vars

C23_Witness ==
    /\ pc = "build"
    /\ cmds = <<"sudo -E pwd", "sudo -E cd /tmp && sudo pwd">>
    /\ counter = 2

\* C24: the instance is local if and only if the configuration given to the
\* constructor has no host, a hostname alone leaving it local; neither the
\* mode nor the configuration changes after construction; and go runs the
\* local backend exactly when local is true: the local loop runs only on a
\* local instance, and a connection or a wait gate exists only on a remote
\* one.
C24_LocalIffNoHost ==
    /\ [](local <=> config.host = Undefined)
    /\ [][local' = local /\ config' = config]_vars
    /\ [][(pc = "build" /\ pc' # "build") =>
              IF local
              THEN gate' = "idle" /\ conn' = "none"
                   /\ (pc' = "runLocal" \/ Len(cbLog') = 1)
              ELSE gate' = "waiting" /\ pc' = "returned"]_vars
    /\ [](pc = "runLocal" => local)
    /\ []((gate # "idle" \/ conn # "none") => ~local)

C24_Witness ==
    /\ config.hostname = "example.com"
    /\ local /\ Live
    /\ pc = "returned"
    /\ Len(execLog) = 2
    /\ gate = "idle"

\* C25: every invocation of the go callback, with or without an error and
\* on either backend, is handed the instance go was called on: what the
\* callback finds in its second argument is the history, the queue and the
\* count of that instance at the moment of the call.
C25_CallbackGetsInstance ==
    [][\A j \in (Len(cbLog) + 1)..Len(cbLog') :
           cbLog'[j].self = Self(history', cmds', counter')]_vars

C25_Witness ==
    /\ Remote /\ Live
    /\ Len(cbLog) = 2
    /\ cbLog[1].err # NullErr
    /\ cbLog[1].self.history # <<>>
    /\ cbLog[2].err = TimeoutError

\* C26: decrement is never invoked on the wait gate while its count is
\* zero, whatever the builder calls before go, the empty sequence included,
\* on the local and on the remote backend, stub or live.
C26_NoDecrementAtZero == ~underflow

\* the same for one enqueued command or more
C26_WithCommands == Len(submitted) >= 1 => ~underflow

\* C27: in every reachable state, on either backend, stub or live, the
\* history followed by the remaining queue is the sequence of rendered
\* commands enqueued so far; so the history holds nothing that was not
\* enqueued and is never longer than what was enqueued.
C27_HistoryThenQueue == history \o cmds = submitted

\* the same for one enqueued command or more
C27_WithCommands == Len(submitted) >= 1 => history \o cmds = submitted

\* the remote commands handed to Client.exec whose channel has not closed
\* normally: still opening or open, or ended by an error
NotCompleted == {i \in 1..Len(execLog) : execLog[i].st \in {"opening", "open", "openErr", "closeErr"}}

\* C28: in every reachable state of a build-then-go cycle the count of the
\* wait gate is the number of commands still queued plus the number of
\* remote commands dispatched and not yet completed, which is 0 or 1; on the
\* local backend it is the length of the queue. (A command whose channel
\* ended in an error is taken as not completed.)
C28_CountIsQueuePlusInFlight ==
    IF local
    THEN counter = Len(cmds)
    ELSE /\ Cardinality(NotCompleted) \in {0, 1}
         /\ counter = Len(cmds) + Cardinality(NotCompleted)

\* the same for one enqueued command or more
C28_WithCommands == Len(submitted) >= 1 => C28_CountIsQueuePlusInFlight

\* the go callback is invoked with a null error in this step
NullCallback ==
    \E j \in (Len(cbLog) + 1)..Len(cbLog') : cbLog'[j].err = NullErr

\* C29: whenever the go callback is invoked with a null error, on either
\* backend, the queue is empty, no command is in flight, the count is zero
\* and the history holds every command that was enqueued.
C29_NullCallbackMeansDone ==
    [][NullCallback =>
          /\ cmds' = <<>>
          /\ InFlight' = {}
          /\ counter' = 0
          /\ \A i \in 1..Len(submitted') :
                 \E k \in 1..Len(history') : history'[k] = submitted'[i]]_vars

\* the same for one enqueued command or more
C29_WithCommands ==
    [][(NullCallback /\ Len(submitted) >= 1) =>
          /\ cmds' = <<>>
          /\ InFlight' = {}
          /\ counter' = 0
          /\ history' = submitted']_vars

\* C30: the history entry of a command is appended before, or in the same
\* step as, the command is handed to callSync or to Client.exec: in every
\* state the commands handed over are no more than the history holds and the
\* i-th of them is history[i]; in stub mode the entries are appended although
\* nothing is handed over.
C30_HistoryBeforeExec ==
    /\ Len(execLog) <= Len(history)
    /\ \A i \in 1..Len(execLog) : execLog[i].cmd = history[i]
    /\ (stub /\ pc = "returned") =>
           /\ execLog = <<>>
           /\ Len(history) >= Len(submitted)
           /\ \A i \in 1..Len(submitted) : submitted[i] \in {history[k] : k \in 1..Len(history)}

C30_Witness ==
    /\ Remote /\ Live
    /\ Len(execLog) = 2
    /\ execLog[2].st = "opening"
    /\ history = SubSeq(submitted, 1, 2)
    /\ Len(cmds) = 1

\* C31: in remote live mode, once a drain of n >= 1 queued commands has
\* aborted on the k-th (its channel could not be opened, or closed
\* abnormally), the history is the first k rendered commands in order, the
\* queue holds the other n-k in order and the count is n-k+1; the callback
\* that reported the abort saw the same.
C31_AbortState ==
    LET n == Len(submitted)
        k == Len(execLog)
    IN  (Remote /\ Live /\ n >= 1 /\ HandedIn("openErr") \cup HandedIn("closeErr") # {}) =>
            /\ HandedIn("openErr") \cup HandedIn("closeErr") = {k}
            /\ history = SubSeq(submitted, 1, k)
            /\ cmds = SubSeq(submitted, k + 1, n)
            /\ counter = n - k + 1
            /\ \E j \in 1..Len(cbLog) :
                   /\ cbLog[j].err \in {OpenError} \cup
                          {CloseError(e, sg) : e \in ClErrs \ {NoClErr}, sg \in Signals}
                   /\ cbLog[j].self = Self(history, cmds, counter)

C31_Witness ==
    /\ Remote /\ Live
    /\ Len(submitted) = 3
    /\ Len(execLog) = 2
    /\ execLog[2].st = "closeErr"
    /\ Len(cmds) = 1
    /\ counter = 2

\* C32: in remote live mode nothing is dispatched before the connection has
\* signalled ready: in every state that precedes the ready event Client.exec
\* has not been invoked and the history is empty, the first dispatch is made
\* by the ready handler, and what it dispatches is the head of the queue.
C32_NoDispatchBeforeReady ==
    /\ []((Remote /\ Live /\ conn \in {"none", "connecting", "failed"}) =>
              history = <<>> /\ execLog = <<>>)
    /\ [][(Remote /\ Live /\ execLog = <<>> /\ (execLog' # <<>> \/ history' # <<>>)) =>
              /\ conn = "connecting" /\ conn' = "ready"
              /\ cmds # <<>> =>
                     /\ history' = <<Head(cmds)>>
                     /\ execLog' = <<Handed(Head(cmds), "opening")>>
                     /\ cmds' = Tail(cmds)]_vars

C32_Witness ==
    /\ Remote /\ Live
    /\ conn = "ready"
    /\ Len(submitted) = 3
    /\ history = <<submitted[1]>>
    /\ execLog = <<Handed(submitted[1], "opening")>>
    /\ cmds = Tail(submitted)

\* C33: in remote stub mode the whole queue is drained inside go: when go
\* returns the queue is empty and the history holds every queued command in
\* submission order, while the go callback has not been invoked; it is
\* invoked later, by the wait gate, and sees that history.
C33_StubDrainsInsideGo ==
    /\ [][(Remote /\ stub /\ pc = "build" /\ pc' = "returned") =>
              /\ cmds' = <<>>
              /\ Len(history') >= Len(cmds)
              /\ \A i \in 1..Len(cmds) : history'[i] = cmds[i]
              /\ cbLog' = <<>>
              /\ gate' = "waiting"]_vars
    /\ []((Remote /\ stub /\ cbLog # <<>>) =>
              /\ gate = "resolved"
              /\ cbLog = <<[err |-> NullErr, self |-> Self(history, <<>>, 0)]>>)

C33_Witness ==
    /\ Remote /\ stub
    /\ pc = "returned"
    /\ gate = "waiting"
    /\ Len(submitted) = 3
    /\ history = submitted
    /\ cbLog = <<>>

\* C34: the builder calls run, sudo, put, mkdir and copy change only the
\* queue and the count and return the instance: none of them touches the
\* history, hands a command to callSync or Client.exec, creates or uses the
\* connection or the wait gate's promise, or invokes the go callback; so in
\* every state before go the history is empty and nothing has been executed.
C34_BuilderFrame ==
    /\ [][(Run \/ Sudo \/ Put \/ Mkdir \/ Copy) =>
              /\ UNCHANGED <<history, execLog, conn, gate, cbLog, pc>>
              /\ UNCHANGED <<local, stub, config, underflow, crashed>>
              /\ Len(cmds') >= Len(cmds)
              /\ SubSeq(cmds', 1, Len(cmds)) = cmds
              /\ counter' - counter = Len(cmds') - Len(cmds)]_vars
    /\ [](pc = "build" =>
              /\ history = <<>>
              /\ execLog = <<>>
              /\ conn = "none"
              /\ gate = "idle"
              /\ cbLog = <<>>)

C34_Witness ==
    /\ pc = "build"
    /\ Len(cmds) = 3
    /\ counter = 3
    /\ diag # {}
    /\ history = <<>>

\* C35: in remote live mode a command enqueued after go, while the channel
\* of an earlier command is open, is dispatched after every command queued
\* before it, in FIFO order (what has been dispatched is always a prefix of
\* what has been enqueued, the rest waiting in the queue in order), and the
\* callback is not invoked with a null error before the channel of that
\* command has closed. The earlier command is one that was queued when go
\* was called.
C35_LateCommandInOrder ==
    /\ []((Remote /\ Live /\ late > 0 /\ Len(submitted) - late >= 1) =>
              /\ history \o cmds = submitted
              /\ \A i \in 1..Len(execLog) : execLog[i].cmd = submitted[i])
    /\ [][(Remote /\ Live /\ late' > 0 /\ Len(submitted') - late' >= 1 /\ NullCallback) =>
              /\ cmds' = <<>>
              /\ history' = submitted'
              /\ Len(execLog') = Len(submitted')
              /\ \A i \in 1..Len(execLog') : execLog'[i].st = "closed"]_vars

C35_Witness ==
    /\ Remote /\ Live
    /\ late = 1
    /\ Len(submitted) = 3
    /\ history = submitted
    /\ execLog[3].st = "closed"
    /\ cbLog = <<[err |-> NullErr, self |-> Self(submitted, <<>>, 0)]>>

\* C36: in the earlier revision, go on a stub instance configured with a
\* host (remote mode) appends every queued command to the history in
\* submission order: once go has returned the history is the rendered
\* commands of the builder calls.
C36_EarlierRemoteStubHistory ==
    (Remote /\ stub /\ pc = "returned") => history = submitted

\* C37: in the earlier revision, when a local live command fails the rest
\* of the queue is not executed and the failure reaches the go callback as an
\* error instead of being thrown out of go; when no command fails the
\* callback is invoked exactly once, after the whole queue has drained.
C37_EarlierLocalFailure ==
    /\ (local /\ Live /\ HandedIn("fail") # {}) =>
           /\ HandedIn("fail") = {Len(execLog)}
           /\ pc # "thrown"
           /\ \E j \in 1..Len(cbLog) : cbLog[j].err \notin {NullErr, Undefined}
    /\ (local /\ Live /\ pc = "returned" /\ HandedIn("fail") = {}) =>
           /\ Len(cbLog) = 1
           /\ cmds = <<>>
           /\ history = submitted

\* the parts of C37 the earlier revision meets: nothing runs after the
\* failing command, and a drain without failure ends in one callback
C37_EarlierAbortsAndReportsSuccess ==
    /\ (local /\ Live /\ HandedIn("fail") # {}) =>
           /\ HandedIn("fail") = {Len(execLog)}
           /\ pc = "thrown"
           /\ cbLog = <<>>
    /\ (local /\ Live /\ pc = "returned") =>
           /\ HandedIn("fail") = {}
           /\ Len(cbLog) = 1
           /\ cmds = <<>>
           /\ history = submitted

====
